---- MODULE Spec2Model ----
(***************************************************************************)
(* State-machine model of GitHubCopilotAuthManager                         *)
(* (provider/githubCopilotAuthManager.ts): idempotent initialization, the  *)
(* OAuth device flow with its poll loop, the service-token exchange, the   *)
(* timer-driven background refresh, getCopilotToken() and destroy().       *)
(*                                                                         *)
(* Every `await` on file or network I/O, every sleep and every timer is a  *)
(* suspension point: one action runs the code from one suspension point    *)
(* to the next.  Network and file-system results are chosen by the         *)
(* environment.  The manager is modelled with verbose = false (the value   *)
(* the provider passes to getInstance), so the debug-only connectivity     *)
(* probe of doInitialize is not taken.                                     *)
(***************************************************************************)
EXTENDS Integers, Sequences, FiniteSets, TLC

\* ------------------------------------------------------------------ bounds
NCoreCallers == 1    \* tasks that call initialize(), whole manager
NCallers == 2        \* tasks that call initialize()
NTokCallers == 1     \* tasks that call getCopilotToken()
MaxRuns == 2         \* doInitialize() executions started, initialization alone
CoreRuns == 1        \* doInitialize() executions started, whole manager
MaxTicks == 2        \* seconds the clock advances
MaxLen == 3          \* characters of a credential, credential store alone

Callers == 1..NCallers
TokCallers == 1..NTokCallers
CoreCallers == 1..NCoreCallers

\* ------------------------------------------------------- program constants
BufferSeconds == 300     \* const buffer = 5 * 60
RefreshLead == 60        \* tokenResponse.refresh_in - 60
NoHandle == 0            \* refreshTimeout / initializePromise = null

\* ------------------------------------------------------------ value model
\* A JS number that may be absent (null / undefined): [has, v].
Num(n) == [has |-> TRUE, v |-> n]
NoNum == [has |-> FALSE, v |-> 0]
\* JS truthiness of a number-or-null: present and not 0.
TruthyNum(x) == x.has /\ x.v # 0

\* Strings holding credentials are tuples of one-character strings; the
\* empty tuple stands for '' and for null alike (both are falsy and are
\* only ever tested for truthiness).
EmptyStr == << >>
TruthyStr(s) == s # EmptyStr
Whitespace == {" ", "\n"}

\* The service token is an opaque string; "null" is the field's initial
\* value and "undefined" a response without the field.
NullTok == "null"
UndefTok == "undefined"
TruthyTok(t) == t \notin {NullTok, UndefTok}

RECURSIVE TrimLeft(_)
TrimLeft(s) ==
    IF s # << >> /\ Head(s) \in Whitespace THEN TrimLeft(Tail(s)) ELSE s

RECURSIVE TrimRight(_)
TrimRight(s) ==
    IF s # << >> /\ s[Len(s)] \in Whitespace
    THEN TrimRight(SubSeq(s, 1, Len(s) - 1)) ELSE s

\* Mutant: trailing whitespace is kept.
Trim_LeftOnly(s) == TrimLeft(s)

\* String.prototype.trim
Trim(s) == TrimRight(TrimLeft(s))

\* Math.ceil(a / b) for a >= 0, b > 0
CeilDiv(a, b) == (a + b - 1) \div b

\* ------------------------------------------------------------ environment
StartTime == 1000                      \* Date.now() / 1000 at construction
StoredCredential == <<"o", "\n">>      \* a credential file left by an earlier process
ProvidedCredential == <<"p">>          \* providedGithubToken, when given
AccessTokens == {<<"n">>}              \* access_token values the server returns
ServiceTokens == {"t1", "t2"}          \* token values of the exchange endpoint
Lifetime == 301                        \* expires_at - now of an issued service token

\* Device-code responses {interval, expires_in} the server may send.
DeviceCodes ==
    { [interval |-> 5, expires_in |-> 30],
      [interval |-> 5, expires_in |-> 13],
      [interval |-> 1, expires_in |-> 0] }

\* The device-code responses and poll answers of the whole-manager
\* specification, which keeps the device flow short.
ShortDeviceCodes == { [interval |-> 1, expires_in |-> 3] }
ShortPollAnswers ==
    { "authorization_pending", "slow_down", "access_denied", "access_token" }

\* What the token-poll endpoint may answer to one request.
PollAnswers ==
    { "authorization_pending", "slow_down", "expired_token", "access_denied",
      "other_error", "access_token", "no_token", "badjson_ok", "badjson_notok",
      "network_error" }

\* What the exchange endpoint may answer at time t: a failure (non-2xx or a
\* rejected fetch), or a 2xx body {token, expires_at, refresh_in} any field
\* of which may be missing.
ExchangeAnswers(t) ==
    { [ok |-> FALSE, token |-> UndefTok, expires_at |-> NoNum, refresh_in |-> NoNum],
      [ok |-> TRUE, token |-> "t1", expires_at |-> Num(t + Lifetime), refresh_in |-> Num(61)],
      [ok |-> TRUE, token |-> "t2", expires_at |-> Num(t + Lifetime), refresh_in |-> Num(61)],
      [ok |-> TRUE, token |-> "t1", expires_at |-> Num(0), refresh_in |-> Num(61)],
      [ok |-> TRUE, token |-> "t2", expires_at |-> Num(t + Lifetime), refresh_in |-> Num(60)],
      [ok |-> TRUE, token |-> UndefTok, expires_at |-> Num(t + Lifetime), refresh_in |-> Num(61)],
      [ok |-> TRUE, token |-> "t1", expires_at |-> NoNum, refresh_in |-> Num(61)],
      [ok |-> TRUE, token |-> "t2", expires_at |-> Num(t + Lifetime), refresh_in |-> NoNum] }

\* Result of fs.writeFile + fs.chmod: both succeed, the write rejects, or
\* the write succeeds and chmod rejects.
WriteResults == {"ok", "write_failed", "chmod_failed"}

\* ------------------------------------------------------------------ state
VARIABLES
    \* fields of GitHubCopilotAuthManager
    providedGithubToken, githubToken, copilotToken, copilotTokenExpiresAt,
    refreshTimeout, pollingCancelled, isInitialized, initializePromise,
    \* environment
    file,         \* GITHUB_TOKEN_PATH: [exists, content]
    now,          \* the clock, in seconds
    timers,       \* pending setTimeout timers: set of [id, armedAt, delay]
    \* tasks
    runs,         \* doInitialize() executions, in start order
    initCall,     \* per caller of initialize(): [pc, joined, result]
    tokCall,      \* per caller of getCopilotToken()
    refreshTasks, \* timer callbacks awaiting their exchange (timer ids)
    \* history
    tokenObtained,          \* some exchange response has been stored
    destroyCalled,          \* destroy() has been called
    usedAfterDestroy,       \* initialize() or getCopilotToken() began after the last destroy()
    bgExchangeAfterDestroy  \* a timer callback sent an exchange after the last destroy()

mgrVars ==
    <<providedGithubToken, githubToken, copilotToken, copilotTokenExpiresAt,
      refreshTimeout, pollingCancelled, isInitialized, initializePromise>>
envVars == <<file, now, timers>>
taskVars == <<runs, initCall, tokCall, refreshTasks>>
histVars == <<tokenObtained, destroyCalled, usedAfterDestroy, bgExchangeAfterDestroy>>
vars == <<mgrVars, envVars, taskVars, histVars>>

NoFile == [exists |-> FALSE, content |-> EmptyStr]
FileWith(s) == [exists |-> TRUE, content |-> s]

\* A doInitialize() execution: its program point and the locals of
\* pollAccessToken, with counters of what it has done so far: requests
\* sent, writes of the credential file started (writes), how the
\* verification of a saved credential ended (savedCheck: "none", "verified"
\* or "rejected") and the poll requests sent before the code was displayed.
NewRun ==
    [ st |-> "ensurePaths", outcome |-> "none",
      attempts |-> 0, maxAttempts |-> 0, sleepDuration |-> 0,
      lastWait |-> 0, slowed |-> FALSE,
      dcReqs |-> 0, pollReqs |-> 0, loops |-> 0, saves |-> 0, exchanges |-> 0,
      displayed |-> FALSE, accessToken |-> EmptyStr,
      deviceCode |-> [interval |-> 0, expires_in |-> 0],
      writes |-> 0, savedCheck |-> "none", pollsBeforeDisplay |-> 0 ]

IdleInit == [pc |-> "idle", joined |-> NoHandle, result |-> "none"]

\* A getCopilotToken() call: its program point, what it returned, and what
\* it saw and did: how the remaining lifetime compared with the buffer when
\* it was called, whether a token had ever been stored, and the exchanges
\* it sent.
IdleTok ==
    [ pc |-> "idle", result |-> "none", value |-> NullTok,
      remaining |-> "absent", expiry |-> "absent", hadToken |-> FALSE,
      readyAtCall |-> FALSE, exchanges |-> 0 ]

\* The stored expiry as the caller finds it: absent, zero or set.
ExpiryKind(exp) == IF ~exp.has THEN "absent" ELSE IF exp.v = 0 THEN "zero" ELSE "set"

\* expiresAt - t against the buffer, as the caller would measure it; "absent"
\* when no expiry is stored.
Remaining(t, exp) ==
    IF ~exp.has THEN "absent"
    ELSE IF exp.v - t < BufferSeconds THEN "below"
    ELSE IF exp.v - t = BufferSeconds THEN "equal"
    ELSE "above"

Init ==
    /\ providedGithubToken \in {EmptyStr, ProvidedCredential}
    /\ githubToken = EmptyStr
    /\ copilotToken = NullTok
    /\ copilotTokenExpiresAt = NoNum
    /\ refreshTimeout = NoHandle
    /\ pollingCancelled = FALSE
    /\ isInitialized = FALSE
    /\ initializePromise = NoHandle
    /\ file \in {NoFile, FileWith(StoredCredential)}
    /\ now = StartTime
    /\ timers = {}
    /\ runs = << >>
    /\ initCall = [c \in Callers |-> IdleInit]
    /\ tokCall = [c \in TokCallers |-> IdleTok]
    /\ refreshTasks = {}
    /\ tokenObtained = FALSE
    /\ destroyCalled = FALSE
    /\ usedAfterDestroy = FALSE
    /\ bgExchangeAfterDestroy = FALSE

\* ------------------------------------------------------------ initialize()
\* Mutant: initialize() without the in-flight check.
InitInFlight_Never == FALSE

\* `if (this.initializePromise)`: an initialization is in flight.
InitInFlight == initializePromise # NoHandle

\* Mutant: initialize() without the check of isInitialized.
AlreadyInitialized_Never == FALSE

\* `if (this.isInitialized) return`
AlreadyInitialized == isInitialized

\* initialize(), up to its first suspension: return at once when Ready, hand
\* out the in-flight promise, or start doInitialize() and await it.
\* doInitialize() itself runs up to the first await of ensurePaths().
InitializeCall(c, maxRuns) ==
    /\ initCall[c].pc \in {"idle", "returned"}
    /\ IF AlreadyInitialized THEN
          /\ initCall' = [initCall EXCEPT ![c] =
                 [pc |-> "returned", joined |-> NoHandle, result |-> "ok"]]
          /\ UNCHANGED <<runs, initializePromise, usedAfterDestroy>>
       ELSE IF InitInFlight THEN
          /\ initCall' = [initCall EXCEPT ![c] =
                 [pc |-> "awaiting", joined |-> initializePromise, result |-> "none"]]
          /\ UNCHANGED <<runs, initializePromise, usedAfterDestroy>>
       ELSE
          /\ Len(runs) < maxRuns
          /\ runs' = Append(runs, NewRun)
          /\ initializePromise' = Len(runs) + 1
          /\ initCall' = [initCall EXCEPT ![c] =
                 [pc |-> "owner", joined |-> Len(runs) + 1, result |-> "none"]]
          /\ usedAfterDestroy' = (usedAfterDestroy \/ destroyCalled)
    /\ UNCHANGED <<providedGithubToken, githubToken, copilotToken,
                   copilotTokenExpiresAt, refreshTimeout, pollingCancelled,
                   isInitialized, envVars, tokCall, refreshTasks,
                   tokenObtained, destroyCalled, bgExchangeAfterDestroy>>

\* A settled doInitialize() whose promise has been consumed: its locals are
\* gone and its outcome remains on record.
Finished(run) == [NewRun EXCEPT !.st = "done", !.outcome = run.outcome]

\* What the continuation of `await this.initializePromise` does to
\* isInitialized: set on success, left alone when the await throws.
InitializedAfter(outcome) == IF outcome = "ok" THEN TRUE ELSE isInitialized

\* Mutant: the promise is dropped on success only.
PromiseAfter_OnSuccess(outcome) ==
    IF outcome = "ok" THEN NoHandle ELSE initializePromise

\* The finally block of initialize(): the promise is dropped whatever the
\* outcome.
PromiseAfter(outcome) == NoHandle

\* The caller that started doInitialize() resumes after its promise has
\* settled: `this.isInitialized = true` on success, and in either case the
\* finally block drops the promise.
InitializeResume(c) ==
    /\ initCall[c].pc = "owner"
    /\ runs[initCall[c].joined].st = "done"
    /\ isInitialized' = InitializedAfter(runs[initCall[c].joined].outcome)
    /\ initializePromise' = PromiseAfter(runs[initCall[c].joined].outcome)
    /\ initCall' = [initCall EXCEPT ![c].pc = "returned",
                                    ![c].result = runs[initCall[c].joined].outcome]
    /\ runs' = [runs EXCEPT ![initCall[c].joined] = Finished(@)]
    /\ UNCHANGED <<providedGithubToken, githubToken, copilotToken,
                   copilotTokenExpiresAt, refreshTimeout, pollingCancelled,
                   envVars, tokCall, refreshTasks, histVars>>

\* A caller that was handed the in-flight promise resumes with its outcome.
\* Its reaction is queued behind that of the caller that started the run.
InitializeJoinResume(c) ==
    /\ initCall[c].pc = "awaiting"
    /\ runs[initCall[c].joined].st = "done"
    /\ initializePromise # initCall[c].joined
    /\ initCall' = [initCall EXCEPT ![c].pc = "returned",
                                    ![c].result = runs[initCall[c].joined].outcome]
    /\ UNCHANGED <<mgrVars, envVars, runs, tokCall, refreshTasks, histVars>>

\* ---------------------------------------------------------- doInitialize()
\* A run ends: its promise settles with "ok" or with the error thrown.
Settle(run, outcome) == [run EXCEPT !.st = "done", !.outcome = outcome]

\* getCopilotTokenFromAPI(), up to its fetch: throws without a credential.
StartExchange(run, credential) ==
    IF TruthyStr(credential)
    THEN [run EXCEPT !.st = "exchange", !.exchanges = @ + 1]
    ELSE Settle(run, "GitHub token not available")

\* verifyGitHubUser() of a newly obtained credential, up to its fetch:
\* throws without a credential.
StartVerify(run, credential) ==
    IF TruthyStr(credential)
    THEN [run EXCEPT !.st = "verifyNew"]
    ELSE Settle(run, "GitHub token not available")

\* Mutant: setupGitHubToken() leaves the cancellation flag as it finds it.
CancelledAtSetup_Kept(cancelled) == cancelled

\* `this.pollingCancelled = false` at the start of setupGitHubToken().
CancelledAtSetup(cancelled) == FALSE

\* The writes of a run after ensurePaths(): one more when the credential
\* file did not exist and was created.
CreatedFile(run, f) == IF f.exists THEN run.writes ELSE run.writes + 1

\* ensurePaths() completes: mkdir, then the credential file is created empty
\* when it does not exist.  On success doInitialize() goes on, without
\* suspending, to use the provided credential and start the exchange, or to
\* setupGitHubToken(), which resets the cancellation flag and starts reading
\* the credential file.
EnsurePathsDone(r, ok) ==
    /\ r \in DOMAIN runs
    /\ runs[r].st = "ensurePaths"
    /\ IF ~ok THEN
          /\ runs' = [runs EXCEPT ![r] = Settle(@, "fs error")]
          /\ UNCHANGED <<file, githubToken, pollingCancelled>>
       ELSE
          /\ file' = IF file.exists THEN file ELSE FileWith(EmptyStr)
          /\ IF TruthyStr(providedGithubToken) THEN
                /\ githubToken' = providedGithubToken
                /\ runs' = [runs EXCEPT ![r] =
                       StartExchange([@ EXCEPT !.writes = CreatedFile(runs[r], file)],
                                     providedGithubToken)]
                /\ UNCHANGED pollingCancelled
             ELSE
                /\ pollingCancelled' = CancelledAtSetup(pollingCancelled)
                /\ runs' = [runs EXCEPT ![r].st = "readToken",
                                        ![r].writes = CreatedFile(runs[r], file)]
                /\ UNCHANGED githubToken
    /\ UNCHANGED <<providedGithubToken, copilotToken, copilotTokenExpiresAt,
                   refreshTimeout, isInitialized, initializePromise, now, timers,
                   initCall, tokCall, refreshTasks, histVars>>

\* readGithubToken(): the trimmed content, or null when the file cannot be
\* read or holds nothing but whitespace.
ReadGithubToken(f, readable) ==
    IF readable /\ f.exists THEN Trim(f.content) ELSE EmptyStr

\* getDeviceCode(), up to its fetch.
StartDeviceCode(run) == [run EXCEPT !.st = "deviceCode", !.dcReqs = @ + 1]

\* readGithubToken() completes.  A saved credential is taken and sent to be
\* verified; without one the device flow starts.
ReadTokenDone(r, readable) ==
    /\ r \in DOMAIN runs
    /\ runs[r].st = "readToken"
    /\ LET saved == ReadGithubToken(file, readable) IN
       IF TruthyStr(saved) THEN
          /\ githubToken' = saved
          /\ runs' = [runs EXCEPT ![r].st = "verifySaved"]
       ELSE
          /\ runs' = [runs EXCEPT ![r] = StartDeviceCode(@)]
          /\ UNCHANGED githubToken
    /\ UNCHANGED <<providedGithubToken, copilotToken, copilotTokenExpiresAt,
                   refreshTimeout, pollingCancelled, isInitialized,
                   initializePromise, envVars, initCall, tokCall, refreshTasks,
                   histVars>>

\* writeGithubToken(s), up to the end of its writes.
StartWrite(run, st) == [run EXCEPT !.st = st, !.writes = @ + 1]

\* Mutant: a verified saved credential is thrown away like a rejected one.
AfterVerifySaved_Reauthorize(run, ok, credential) ==
    StartWrite([run EXCEPT !.savedCheck = IF ok THEN "verified" ELSE "rejected"],
               "clearToken")

\* setupGitHubToken() after verifyGitHubUser() of the saved credential:
\* verified, it returns and doInitialize() goes on to the exchange; rejected,
\* the catch block starts clearing the file.
AfterVerifySaved(run, ok, credential) ==
    IF ok
    THEN StartExchange([run EXCEPT !.savedCheck = "verified"], credential)
    ELSE StartWrite([run EXCEPT !.savedCheck = "rejected"], "clearToken")

\* verifyGitHubUser() of the saved credential completes.
VerifySavedDone(r, ok) ==
    /\ r \in DOMAIN runs
    /\ runs[r].st = "verifySaved"
    /\ runs' = [runs EXCEPT ![r] = AfterVerifySaved(@, ok, githubToken)]
    /\ UNCHANGED <<mgrVars, envVars, initCall, tokCall, refreshTasks, histVars>>

\* Mutant: the write leaves the file as it was.
FileAfterWrite_Kept(f, s, w) == f

\* The file after writeGithubToken(s) ended with result w.
FileAfterWrite(f, s, w) == IF w = "write_failed" THEN f ELSE FileWith(s)

\* writeGithubToken('') completes: the credential is forgotten and the
\* device flow starts, or the write error ends the run.
ClearTokenDone(r, w) ==
    /\ r \in DOMAIN runs
    /\ runs[r].st = "clearToken"
    /\ file' = FileAfterWrite(file, EmptyStr, w)
    /\ IF w = "ok" THEN
          /\ githubToken' = EmptyStr
          /\ runs' = [runs EXCEPT ![r] = StartDeviceCode(@)]
       ELSE
          /\ runs' = [runs EXCEPT ![r] = Settle(@, "fs error")]
          /\ UNCHANGED githubToken
    /\ UNCHANGED <<providedGithubToken, copilotToken, copilotTokenExpiresAt,
                   refreshTimeout, pollingCancelled, isInitialized,
                   initializePromise, now, timers, initCall, tokCall,
                   refreshTasks, histVars>>

\* ------------------------------------------------------- pollAccessToken()
\* `const sleepDuration = (deviceCode.interval + 1) * 1000` (milliseconds)
SleepDuration(dc) == (dc.interval + 1) * 1000

\* Mutant: the quotient rounded down.
MaxAttempts_Floor(dc) == dc.expires_in \div (dc.interval + 1)

\* `Math.ceil(deviceCode.expires_in / (deviceCode.interval + 1))`
MaxAttempts(dc) == CeilDiv(dc.expires_in, dc.interval + 1)

\* Mutant: the loop never looks at the flag.
PollCancelled_Never(cancelled) == FALSE

\* `if (this.pollingCancelled)` at the top of an iteration.
PollCancelled(cancelled) == cancelled

\* The head of the while loop, up to the fetch of the iteration: the loop
\* test, attempts++, the cancellation check, then the token request.
PollEnter(run, cancelled) ==
    IF run.attempts < run.maxAttempts THEN
        IF PollCancelled(cancelled)
        THEN Settle([run EXCEPT !.attempts = @ + 1],
                    "Authentication polling was cancelled")
        ELSE [run EXCEPT !.attempts = @ + 1, !.pollReqs = @ + 1, !.st = "pollFetch"]
    ELSE Settle(run, "Authentication timeout")

\* Mutant: nothing is printed.
Display_Skipped(run) == run

\* The console.log lines that print the verification URL and the user code.
Display(run) == [run EXCEPT !.displayed = TRUE, !.pollsBeforeDisplay = run.pollReqs]

\* getDeviceCode() completes.  On success the verification URL and the user
\* code are printed and pollAccessToken() runs up to its first request.
DeviceCodeDone(r, ok, dc) ==
    /\ r \in DOMAIN runs
    /\ runs[r].st = "deviceCode"
    /\ runs' = [runs EXCEPT ![r] =
           IF ok
           THEN PollEnter([Display(@) EXCEPT
                                    !.deviceCode = dc,
                                    !.loops = @ + 1,
                                    !.sleepDuration = SleepDuration(dc),
                                    !.attempts = 0,
                                    !.maxAttempts = MaxAttempts(dc)],
                          pollingCancelled)
           ELSE Settle(@, "Failed to get device code")]
    /\ UNCHANGED <<mgrVars, envVars, initCall, tokCall, refreshTasks, histVars>>

\* The sleep that follows a slow_down answer.
SlowDownWait(run) == run.sleepDuration * 2

\* `await this.sleep(ms)` inside the loop.
PollSleep(run, ms) == [run EXCEPT !.st = "pollSleep", !.lastWait = ms]

\* Mutant: a terminal error answer is waited out like a pending one.
PollFail_Retry(run, message) == PollSleep(run, run.sleepDuration)

\* `throw new Error(...)` for a terminal error answer: pollAccessToken()
\* rejects, and with it setupGitHubToken() and doInitialize().
PollFail(run, message) == Settle(run, message)

\* What one answer of the token endpoint does to the loop.
PollDispatch(run, answer, token) ==
    CASE answer = "network_error" -> Settle(run, "fetch failed")
      [] answer = "badjson_notok" -> PollSleep(run, run.sleepDuration)
      [] answer = "badjson_ok" -> Settle(run, "Invalid response from GitHub OAuth")
      [] answer = "authorization_pending" -> PollSleep(run, run.sleepDuration)
      [] answer = "slow_down" ->
            PollSleep([run EXCEPT !.slowed = TRUE], SlowDownWait(run))
      [] answer = "expired_token" -> PollFail(run, "Authentication code expired")
      [] answer = "access_denied" -> PollFail(run, "Authentication was denied")
      [] answer = "other_error" -> PollFail(run, "OAuth error")
      [] answer = "access_token" ->
            \* pollAccessToken returns; setupGitHubToken starts the save
            StartWrite([run EXCEPT !.accessToken = token, !.saves = @ + 1],
                       "saveToken")
      [] answer = "no_token" -> PollSleep(run, run.sleepDuration)

\* The token request of an iteration completes.
PollResponse(r, answer, token) ==
    /\ r \in DOMAIN runs
    /\ runs[r].st = "pollFetch"
    /\ runs' = [runs EXCEPT ![r] = PollDispatch(@, answer, token)]
    /\ UNCHANGED <<mgrVars, envVars, initCall, tokCall, refreshTasks, histVars>>

\* The sleep of an iteration ends and the loop goes round.
PollWake(r) ==
    /\ r \in DOMAIN runs
    /\ runs[r].st = "pollSleep"
    /\ runs' = [runs EXCEPT ![r] = PollEnter(@, pollingCancelled)]
    /\ UNCHANGED <<mgrVars, envVars, initCall, tokCall, refreshTasks, histVars>>

\* writeGithubToken(token) completes: the credential is kept in memory and
\* sent to be verified, or the write error ends the run.
SaveTokenDone(r, w) ==
    /\ r \in DOMAIN runs
    /\ runs[r].st = "saveToken"
    /\ file' = FileAfterWrite(file, runs[r].accessToken, w)
    /\ IF w = "ok" THEN
          /\ githubToken' = runs[r].accessToken
          /\ runs' = [runs EXCEPT ![r] = StartVerify(@, runs[r].accessToken)]
       ELSE
          /\ runs' = [runs EXCEPT ![r] = Settle(@, "fs error")]
          /\ UNCHANGED githubToken
    /\ UNCHANGED <<providedGithubToken, copilotToken, copilotTokenExpiresAt,
                   refreshTimeout, pollingCancelled, isInitialized,
                   initializePromise, now, timers, initCall, tokCall,
                   refreshTasks, histVars>>

\* verifyGitHubUser() of the new credential completes.
VerifyNewDone(r, ok) ==
    /\ r \in DOMAIN runs
    /\ runs[r].st = "verifyNew"
    /\ runs' = [runs EXCEPT ![r] =
           IF ok THEN StartExchange(@, githubToken)
           ELSE Settle(@, "Failed to verify GitHub user")]
    /\ UNCHANGED <<mgrVars, envVars, initCall, tokCall, refreshTasks, histVars>>

\* ------------------------------------------------------- setupAutoRefresh()
\* `(tokenResponse.refresh_in - 60) * 1000`; NaN when refresh_in is missing.
RefreshInterval(resp) ==
    IF resp.refresh_in.has THEN Num((resp.refresh_in.v - RefreshLead) * 1000) ELSE NoNum

\* `if (refreshInterval > 0)`: NaN > 0 is false.
ArmsTimer(resp) == RefreshInterval(resp).has /\ RefreshInterval(resp).v > 0

\* Handles in use: a new timer gets one that names nothing else.
UsedHandles(tm, handle, tasks) == {t.id : t \in tm} \cup tasks \cup {handle}
FreshHandle(tm, handle, tasks) ==
    CHOOSE i \in 1..(Cardinality(UsedHandles(tm, handle, tasks)) + 1) :
        i \notin UsedHandles(tm, handle, tasks)

\* setupAutoRefresh(resp) at time t: the pending timers and the stored
\* handle afterwards.
SetupAutoRefresh(resp, tm, handle, tasks, t) ==
    IF ArmsTimer(resp)
    THEN [ timers |-> tm \cup {[ id |-> FreshHandle(tm, handle, tasks),
                                 armedAt |-> t,
                                 delay |-> RefreshInterval(resp).v ]},
           handle |-> FreshHandle(tm, handle, tasks) ]
    ELSE [ timers |-> tm, handle |-> handle ]

\* clearTimeout(handle)
ClearTimeout(tm, handle) == {t \in tm : t.id # handle}

\* Mutant: the expiry of the previous response is kept.
StoredExpiry_Kept(resp) == copilotTokenExpiresAt

\* `this.copilotTokenExpiresAt = <response>.expires_at`, the statement that
\* follows `this.copilotToken = <response>.token` wherever a response is stored.
StoredExpiry(resp) == resp.expires_at

\* ------------------------------------------------------ setupCopilotToken()
\* The exchange of an initialization completes: the token and its expiry
\* are stored and the refresh timer armed, and doInitialize() returns; or
\* the error ends the run.
ExchangeDone(r, resp) ==
    /\ r \in DOMAIN runs
    /\ runs[r].st = "exchange"
    /\ IF resp.ok THEN
          LET armed == SetupAutoRefresh(resp, timers, refreshTimeout, refreshTasks, now) IN
          /\ copilotToken' = resp.token
          /\ copilotTokenExpiresAt' = StoredExpiry(resp)
          /\ timers' = armed.timers
          /\ refreshTimeout' = armed.handle
          /\ tokenObtained' = TRUE
          /\ runs' = [runs EXCEPT ![r] = Settle(@, "ok")]
       ELSE
          /\ runs' = [runs EXCEPT ![r] = Settle(@, "Failed to get Copilot token")]
          /\ UNCHANGED <<copilotToken, copilotTokenExpiresAt, timers,
                         refreshTimeout, tokenObtained>>
    /\ UNCHANGED <<providedGithubToken, githubToken, pollingCancelled,
                   isInitialized, initializePromise, file, now, initCall,
                   tokCall, refreshTasks, destroyCalled, usedAfterDestroy,
                   bgExchangeAfterDestroy>>

\* -------------------------------------------------------- getCopilotToken()
\* Mutant: the comparison made strict.
IsStale_Strict(t, expiresAt) == t > expiresAt - BufferSeconds

\* `now >= this.copilotTokenExpiresAt - buffer`
IsStale(t, expiresAt) == t >= expiresAt - BufferSeconds

\* `if (this.copilotTokenExpiresAt)` and the staleness test inside it.
NeedsRefresh(t, exp) == TruthyNum(exp) /\ IsStale(t, exp.v)

\* Mutant: no check that a token is held.
TokenMissing_Never(tok) == FALSE

\* `if (!this.copilotToken) throw`
TokenMissing(tok) == ~TruthyTok(tok)

\* Mutant: getCopilotToken() starts doInitialize() when the manager is
\* neither initialized nor initializing.
GetTokenInit_Implicit ==
    IF ~isInitialized /\ ~InitInFlight /\ Len(runs) < CoreRuns
    THEN runs' = Append(runs, NewRun) /\ initializePromise' = Len(runs) + 1
    ELSE UNCHANGED <<runs, initializePromise>>

\* What getCopilotToken() does about initialization: it never calls
\* initialize(), whatever isInitialized says.
GetTokenInit == UNCHANGED <<runs, initializePromise>>

\* The body of getCopilotToken() up to its first suspension, for a call
\* whose record is `call`: it throws without a token, returns the cached
\* token when it is fresh, or sends an exchange.
GetTokenStart(call) ==
    IF TokenMissing(copilotToken) THEN
        [call EXCEPT !.pc = "returned", !.result = "Copilot token not available"]
    ELSE IF NeedsRefresh(now, copilotTokenExpiresAt) THEN
        IF TruthyStr(githubToken)
        THEN [call EXCEPT !.pc = "exchange", !.exchanges = 1]
        ELSE [call EXCEPT !.pc = "returned",
                          !.result = "Failed to refresh expired Copilot token"]
    ELSE
        [call EXCEPT !.pc = "returned", !.result = "token",
                     !.value = copilotToken]

\* getCopilotToken(), up to its first suspension.
GetTokenCall(c) ==
    /\ tokCall[c].pc \in {"idle", "returned"}
    /\ LET call == [ IdleTok EXCEPT !.remaining = Remaining(now, copilotTokenExpiresAt),
                                    !.expiry = ExpiryKind(copilotTokenExpiresAt),
                                    !.readyAtCall = isInitialized,
                                    !.hadToken = tokenObtained ] IN
       tokCall' = [tokCall EXCEPT ![c] = GetTokenStart(call)]
    /\ GetTokenInit
    /\ usedAfterDestroy' = (usedAfterDestroy \/ destroyCalled)
    /\ UNCHANGED <<providedGithubToken, githubToken, copilotToken,
                   copilotTokenExpiresAt, refreshTimeout, pollingCancelled,
                   isInitialized, envVars, initCall, refreshTasks,
                   tokenObtained, destroyCalled, bgExchangeAfterDestroy>>

\* The exchange of a stale getCopilotToken() completes: the new token and
\* expiry are stored, the old timer is cleared and a new one armed, and the
\* stored token is returned; or the call throws.
GetTokenExchangeDone(c, resp) ==
    /\ tokCall[c].pc = "exchange"
    /\ IF resp.ok THEN
          LET armed == SetupAutoRefresh(resp, ClearTimeout(timers, refreshTimeout),
                                        refreshTimeout, refreshTasks, now) IN
          /\ copilotToken' = resp.token
          /\ copilotTokenExpiresAt' = StoredExpiry(resp)
          /\ timers' = armed.timers
          /\ refreshTimeout' = armed.handle
          /\ tokenObtained' = TRUE
          /\ tokCall' = [tokCall EXCEPT ![c].pc = "returned",
                                        ![c].result = "token",
                                        ![c].value = resp.token]
       ELSE
          /\ tokCall' = [tokCall EXCEPT ![c].pc = "returned",
                 ![c].result = "Failed to refresh expired Copilot token"]
          /\ UNCHANGED <<copilotToken, copilotTokenExpiresAt, timers,
                         refreshTimeout, tokenObtained>>
    /\ UNCHANGED <<providedGithubToken, githubToken, pollingCancelled,
                   isInitialized, initializePromise, file, now, runs, initCall,
                   refreshTasks, destroyCalled, usedAfterDestroy,
                   bgExchangeAfterDestroy>>

\* -------------------------------------------------------- background refresh
\* A timer is due once its delay has elapsed.
Due(t) == (now - t.armedAt) * 1000 >= t.delay

\* A pending timer fires: its callback runs up to the exchange request
\* (which throws at once, and is swallowed, without a credential).
TimerFire(t) ==
    /\ t \in timers
    /\ Due(t)
    /\ timers' = timers \ {t}
    /\ IF TruthyStr(githubToken) THEN
          /\ refreshTasks' = refreshTasks \cup {t.id}
          /\ bgExchangeAfterDestroy' = (bgExchangeAfterDestroy \/ destroyCalled)
       ELSE
          UNCHANGED <<refreshTasks, bgExchangeAfterDestroy>>
    /\ UNCHANGED <<mgrVars, file, now, runs, initCall, tokCall, tokenObtained,
                   destroyCalled, usedAfterDestroy>>

\* Mutant: the catch block schedules a retry.
AfterRefreshError_Retry(tm, handle, tasks, t) ==
    SetupAutoRefresh([refresh_in |-> Num(RefreshLead + 1)], tm, handle, tasks, t)

\* The catch block of the timer callback: the error is logged; the pending
\* timers and the stored handle stay as they are.
AfterRefreshError(tm, handle, tasks, t) == [timers |-> tm, handle |-> handle]

\* The exchange of a timer callback completes: the new token and expiry are
\* stored and the next timer armed; a failure is logged and dropped.
RefreshDone(id, resp) ==
    /\ id \in refreshTasks
    /\ refreshTasks' = refreshTasks \ {id}
    /\ IF resp.ok THEN
          LET armed == SetupAutoRefresh(resp, timers, refreshTimeout,
                                        refreshTasks \ {id}, now) IN
          /\ copilotToken' = resp.token
          /\ copilotTokenExpiresAt' = StoredExpiry(resp)
          /\ timers' = armed.timers
          /\ refreshTimeout' = armed.handle
          /\ tokenObtained' = TRUE
       ELSE
          LET after == AfterRefreshError(timers, refreshTimeout,
                                         refreshTasks \ {id}, now) IN
          /\ timers' = after.timers
          /\ refreshTimeout' = after.handle
          /\ UNCHANGED <<copilotToken, copilotTokenExpiresAt, tokenObtained>>
    /\ UNCHANGED <<providedGithubToken, githubToken, pollingCancelled,
                   isInitialized, initializePromise, file, now, runs, initCall,
                   tokCall, destroyCalled, usedAfterDestroy,
                   bgExchangeAfterDestroy>>

\* ------------------------------------------------------------------ destroy()
\* Mutant: destroy() also forgets the credential and the service token.
Destroy_Wipe ==
    /\ pollingCancelled' = TRUE
    /\ timers' = IF refreshTimeout # NoHandle
                 THEN ClearTimeout(timers, refreshTimeout) ELSE timers
    /\ refreshTimeout' = NoHandle
    /\ githubToken' = EmptyStr
    /\ copilotToken' = NullTok
    /\ copilotTokenExpiresAt' = NoNum
    /\ destroyCalled' = TRUE
    /\ usedAfterDestroy' = FALSE
    /\ bgExchangeAfterDestroy' = FALSE
    /\ UNCHANGED <<providedGithubToken, isInitialized, initializePromise,
                   file, now, taskVars, tokenObtained>>

\* destroy(): raise the cancellation flag and clear the stored timer.
Destroy ==
    /\ pollingCancelled' = TRUE
    /\ timers' = IF refreshTimeout # NoHandle
                 THEN ClearTimeout(timers, refreshTimeout) ELSE timers
    /\ refreshTimeout' = NoHandle
    /\ destroyCalled' = TRUE
    /\ usedAfterDestroy' = FALSE
    /\ bgExchangeAfterDestroy' = FALSE
    /\ UNCHANGED <<providedGithubToken, githubToken, copilotToken,
                   copilotTokenExpiresAt, isInitialized, initializePromise,
                   file, now, taskVars, tokenObtained>>

\* ------------------------------------------------------------------- clock
\* The clock is read only by the staleness test and by timers, both of which
\* need a stored token: it starts to count when the first token is stored.
Tick ==
    /\ tokenObtained
    /\ now < StartTime + MaxTicks
    /\ now' = now + 1
    /\ UNCHANGED <<mgrVars, file, timers, taskVars, histVars>>

\* ------------------------------------------------------------ specification
\* The whole manager: initialization by one caller with a short device
\* flow, token retrieval, background refresh, teardown and the clock.
\* Overlapping initialize() calls are the subject of SpecFlow.
Next ==
    \/ \E c \in CoreCallers : InitializeCall(c, CoreRuns)
    \/ \E c \in CoreCallers : InitializeResume(c)
    \/ \E r \in 1..MaxRuns, ok \in BOOLEAN : EnsurePathsDone(r, ok)
    \/ \E r \in 1..MaxRuns, readable \in BOOLEAN : ReadTokenDone(r, readable)
    \/ \E r \in 1..MaxRuns, ok \in BOOLEAN : VerifySavedDone(r, ok)
    \/ \E r \in 1..MaxRuns, w \in WriteResults : ClearTokenDone(r, w)
    \/ \E r \in 1..MaxRuns, ok \in BOOLEAN, dc \in ShortDeviceCodes : DeviceCodeDone(r, ok, dc)
    \/ \E r \in 1..MaxRuns, a \in ShortPollAnswers, tok \in AccessTokens : PollResponse(r, a, tok)
    \/ \E r \in 1..MaxRuns : PollWake(r)
    \/ \E r \in 1..MaxRuns, w \in WriteResults : SaveTokenDone(r, w)
    \/ \E r \in 1..MaxRuns, ok \in BOOLEAN : VerifyNewDone(r, ok)
    \/ \E r \in 1..MaxRuns : \E resp \in ExchangeAnswers(now) : ExchangeDone(r, resp)
    \/ \E c \in TokCallers : GetTokenCall(c)
    \/ \E c \in TokCallers : \E resp \in ExchangeAnswers(now) : GetTokenExchangeDone(c, resp)
    \/ \E t \in timers : TimerFire(t)
    \/ \E id \in refreshTasks : \E resp \in ExchangeAnswers(now) : RefreshDone(id, resp)
    \/ Destroy
    \/ Tick

Spec == Init /\ [][Next]_vars

\* Initialization alone, with every device-code response and poll answer:
\* concurrent initialize() callers, the device flow and destroy().
NextFlow ==
    \/ \E c \in Callers : InitializeCall(c, MaxRuns)
    \/ \E c \in Callers : InitializeResume(c)
    \/ \E c \in Callers : InitializeJoinResume(c)
    \/ \E r \in 1..MaxRuns, ok \in BOOLEAN : EnsurePathsDone(r, ok)
    \/ \E r \in 1..MaxRuns, readable \in BOOLEAN : ReadTokenDone(r, readable)
    \/ \E r \in 1..MaxRuns, ok \in BOOLEAN : VerifySavedDone(r, ok)
    \/ \E r \in 1..MaxRuns, w \in WriteResults : ClearTokenDone(r, w)
    \/ \E r \in 1..MaxRuns, ok \in BOOLEAN, dc \in DeviceCodes : DeviceCodeDone(r, ok, dc)
    \/ \E r \in 1..MaxRuns, a \in PollAnswers, tok \in AccessTokens : PollResponse(r, a, tok)
    \/ \E r \in 1..MaxRuns : PollWake(r)
    \/ \E r \in 1..MaxRuns, w \in WriteResults : SaveTokenDone(r, w)
    \/ \E r \in 1..MaxRuns, ok \in BOOLEAN : VerifyNewDone(r, ok)
    \/ \E r \in 1..MaxRuns : \E resp \in ExchangeAnswers(now) : ExchangeDone(r, resp)
    \/ Destroy

SpecFlow == Init /\ [][NextFlow]_vars

\* The credential store alone: initialization up to the exchange, started on
\* any content of the credential file, with any credential handed out by the
\* device flow.  A failed initialization is followed by one that reads what
\* the first one wrote.
StringsOver(chars) ==
    UNION { [1..n -> chars] : n \in 0..MaxLen }
StoreFiles == {NoFile} \cup { FileWith(s) : s \in StringsOver({"o", " ", "\n"}) }
StoreTokens == StringsOver({"n", " ", "\n"}) \ {EmptyStr}
StorePollAnswers == {"access_token", "access_denied"}

InitStore ==
    /\ providedGithubToken = EmptyStr
    /\ githubToken = EmptyStr
    /\ copilotToken = NullTok
    /\ copilotTokenExpiresAt = NoNum
    /\ refreshTimeout = NoHandle
    /\ pollingCancelled = FALSE
    /\ isInitialized = FALSE
    /\ initializePromise = NoHandle
    /\ file \in StoreFiles
    /\ now = StartTime
    /\ timers = {}
    /\ runs = << >>
    /\ initCall = [c \in Callers |-> IdleInit]
    /\ tokCall = [c \in TokCallers |-> IdleTok]
    /\ refreshTasks = {}
    /\ tokenObtained = FALSE
    /\ destroyCalled = FALSE
    /\ usedAfterDestroy = FALSE
    /\ bgExchangeAfterDestroy = FALSE

NextStore ==
    \/ \E c \in Callers : InitializeCall(c, MaxRuns)
    \/ \E c \in Callers : InitializeResume(c)
    \/ \E c \in Callers : InitializeJoinResume(c)
    \/ \E r \in 1..MaxRuns, ok \in BOOLEAN : EnsurePathsDone(r, ok)
    \/ \E r \in 1..MaxRuns, readable \in BOOLEAN : ReadTokenDone(r, readable)
    \/ \E r \in 1..MaxRuns, ok \in BOOLEAN : VerifySavedDone(r, ok)
    \/ \E r \in 1..MaxRuns, w \in WriteResults : ClearTokenDone(r, w)
    \/ \E r \in 1..MaxRuns, ok \in BOOLEAN, dc \in ShortDeviceCodes : DeviceCodeDone(r, ok, dc)
    \/ \E r \in 1..MaxRuns, a \in StorePollAnswers, tok \in StoreTokens : PollResponse(r, a, tok)
    \/ \E r \in 1..MaxRuns, w \in WriteResults : SaveTokenDone(r, w)
    \/ \E r \in 1..MaxRuns, ok \in BOOLEAN : VerifyNewDone(r, ok)

SpecStore == InitStore /\ [][NextStore]_vars

\* Token retrieval by overlapping callers: a manager constructed with a
\* provided credential, initialized once, and NStaleCallers callers of
\* getCopilotToken() whose calls overlap with one another and with the
\* clock.  The timers armed here stay pending: their callbacks are the
\* subject of Spec.
NStaleCallers == 2
StaleCallers == 1..NStaleCallers

InitStale ==
    /\ providedGithubToken = ProvidedCredential
    /\ githubToken = EmptyStr
    /\ copilotToken = NullTok
    /\ copilotTokenExpiresAt = NoNum
    /\ refreshTimeout = NoHandle
    /\ pollingCancelled = FALSE
    /\ isInitialized = FALSE
    /\ initializePromise = NoHandle
    /\ file \in {NoFile, FileWith(StoredCredential)}
    /\ now = StartTime
    /\ timers = {}
    /\ runs = << >>
    /\ initCall = [c \in Callers |-> IdleInit]
    /\ tokCall = [c \in StaleCallers |-> IdleTok]
    /\ refreshTasks = {}
    /\ tokenObtained = FALSE
    /\ destroyCalled = FALSE
    /\ usedAfterDestroy = FALSE
    /\ bgExchangeAfterDestroy = FALSE

NextStale ==
    \/ \E c \in CoreCallers : InitializeCall(c, CoreRuns)
    \/ \E c \in CoreCallers : InitializeResume(c)
    \/ \E r \in 1..CoreRuns, ok \in BOOLEAN : EnsurePathsDone(r, ok)
    \/ \E r \in 1..CoreRuns : \E resp \in ExchangeAnswers(now) : ExchangeDone(r, resp)
    \/ \E c \in StaleCallers : GetTokenCall(c)
    \/ \E c \in StaleCallers : \E resp \in ExchangeAnswers(now) : GetTokenExchangeDone(c, resp)
    \/ Tick

SpecStale == InitStale /\ [][NextStale]_vars

\* ------------------------------- GitHubCopilotOpenAICompatibleProvider
\* The provider object built on the shared manager.  Its constructor calls
\* initialize() once and keeps the promise in this.initPromise: initCall of
\* the caller Provider is that call, and its pc "cleared" stands for
\* `this.initPromise = null`.  The other callers of initialize() are other
\* users of the singleton.
Provider == 1

\* `this.initPromise = this.authManager.initialize().catch(...)` in the
\* constructor, which runs once per provider object.
ProviderConstruct ==
    /\ initCall[Provider].pc = "idle"
    /\ InitializeCall(Provider, MaxRuns)

\* The promise held by the provider has settled, or has been dropped.
ProviderSettled == initCall[Provider].pc \in {"returned", "cleared"}

\* `await this.initPromise` throws: the promise was rejected.
ProviderInitFailed ==
    initCall[Provider].pc = "returned" /\ initCall[Provider].result # "ok"

\* ensureInitialized() returns: `this.initPromise = null` when the promise
\* was awaited, nothing when it was null already; the manager's
\* getCopilotToken() then runs up to its first suspension.
ProviderTokenPass(c) ==
    /\ LET call == [ IdleTok EXCEPT !.remaining = Remaining(now, copilotTokenExpiresAt),
                                    !.expiry = ExpiryKind(copilotTokenExpiresAt),
                                    !.readyAtCall = isInitialized,
                                    !.hadToken = tokenObtained ] IN
       tokCall' = [tokCall EXCEPT ![c] = GetTokenStart(call)]
    /\ initCall' = [initCall EXCEPT ![Provider].pc = "cleared"]
    /\ GetTokenInit
    /\ usedAfterDestroy' = (usedAfterDestroy \/ destroyCalled)
    /\ UNCHANGED <<providedGithubToken, githubToken, copilotToken,
                   copilotTokenExpiresAt, refreshTimeout, pollingCancelled,
                   isInitialized, envVars, refreshTasks,
                   tokenObtained, destroyCalled, bgExchangeAfterDestroy>>

\* ensureInitialized() throws the error of the rejected promise before the
\* assignment of null, and the provider's getCopilotToken() rejects with it.
ProviderTokenFail(c) ==
    /\ tokCall' = [tokCall EXCEPT ![c] =
           [IdleTok EXCEPT !.pc = "returned",
                           !.result = initCall[Provider].result,
                           !.readyAtCall = isInitialized,
                           !.hadToken = tokenObtained]]
    /\ UNCHANGED <<mgrVars, envVars, runs, initCall, refreshTasks, histVars>>

\* Mutant: a provider whose initialization failed calls initialize() again.
ProviderGetCopilotToken_Retry(c) ==
    /\ tokCall[c].pc \in {"idle", "returned"}
    /\ ProviderSettled
    /\ IF ProviderInitFailed THEN InitializeCall(Provider, MaxRuns)
       ELSE ProviderTokenPass(c)

\* The provider's getCopilotToken(), from the point where the promise it
\* awaits in ensureInitialized() has settled.  getAuthHeaders() and the
\* client's fetch begin with the same `await this.ensureInitialized()`.
ProviderGetCopilotToken(c) ==
    /\ tokCall[c].pc \in {"idle", "returned"}
    /\ ProviderSettled
    /\ IF ProviderInitFailed THEN ProviderTokenFail(c)
       ELSE ProviderTokenPass(c)

\* A provider and another user of the shared manager, with a short device
\* flow.
NextProvider ==
    \/ ProviderConstruct
    \/ \E c \in Callers \ {Provider} : InitializeCall(c, MaxRuns)
    \/ \E c \in Callers : InitializeResume(c)
    \/ \E c \in Callers : InitializeJoinResume(c)
    \/ \E r \in 1..MaxRuns, ok \in BOOLEAN : EnsurePathsDone(r, ok)
    \/ \E r \in 1..MaxRuns, readable \in BOOLEAN : ReadTokenDone(r, readable)
    \/ \E r \in 1..MaxRuns, ok \in BOOLEAN : VerifySavedDone(r, ok)
    \/ \E r \in 1..MaxRuns, w \in WriteResults : ClearTokenDone(r, w)
    \/ \E r \in 1..MaxRuns, ok \in BOOLEAN, dc \in ShortDeviceCodes : DeviceCodeDone(r, ok, dc)
    \/ \E r \in 1..MaxRuns, a \in ShortPollAnswers, tok \in AccessTokens : PollResponse(r, a, tok)
    \/ \E r \in 1..MaxRuns : PollWake(r)
    \/ \E r \in 1..MaxRuns, w \in WriteResults : SaveTokenDone(r, w)
    \/ \E r \in 1..MaxRuns, ok \in BOOLEAN : VerifyNewDone(r, ok)
    \/ \E r \in 1..MaxRuns : \E resp \in ExchangeAnswers(now) : ExchangeDone(r, resp)
    \/ \E c \in TokCallers : ProviderGetCopilotToken(c)

SpecProvider == Init /\ [][NextProvider]_vars

\* ==================================================================== claims
ActiveRuns == {r \in DOMAIN runs : runs[r].st # "done"}
Pending(c) == initCall[c].pc \in {"owner", "awaiting"}
Delivered(c) == initCall[c].pc = "returned" /\ initCall[c].joined # NoHandle
InPollLoop(run) == run.st \in {"pollFetch", "pollSleep"}

\* C1: however many initialize() calls overlap, at most one doInitialize()
\* executes at a time, it is the one the in-flight promise names and it has
\* exactly one caller that started it; one execution sends at most one
\* device-code request, runs at most one poll loop and saves at most one
\* credential; and every caller that has resolved holds the outcome of the
\* execution it started or was handed.
C1_SingleFlight ==
    /\ Cardinality(ActiveRuns) <= 1
    /\ \A r \in ActiveRuns :
          /\ initializePromise = r
          /\ Cardinality({c \in Callers : initCall[c].pc = "owner"
                                          /\ initCall[c].joined = r}) = 1
    /\ \A c \in Callers : Pending(c) /\ runs[initCall[c].joined].st # "done"
          => initCall[c].joined = initializePromise
    /\ \A r \in DOMAIN runs :
          runs[r].dcReqs <= 1 /\ runs[r].loops <= 1 /\ runs[r].saves <= 1
    /\ \A c \in Callers : Delivered(c)
          => initCall[c].result = runs[initCall[c].joined].outcome

\* C1 witness: two callers have resolved from the same, only, execution,
\* which went through the device flow and succeeded.
C1_Witness ==
    /\ Len(runs) = 1
    /\ \A c \in Callers : Delivered(c) /\ initCall[c].joined = 1
                          /\ initCall[c].result = "ok"
    /\ TruthyStr(githubToken) /\ file = FileWith(githubToken)
    /\ githubToken \in AccessTokens

\* C2, the states: the promise is retained only while its execution runs or
\* until the caller that started it resumes; a caller that was delivered an
\* error holds the error of its execution, the promise of that execution is
\* gone, and isInitialized is set only by a later execution that succeeded.
C2_Inv ==
    /\ initializePromise # NoHandle
          => \E c \in Callers : initCall[c].pc = "owner"
                                /\ initCall[c].joined = initializePromise
    /\ isInitialized
          => \E r \in DOMAIN runs : runs[r].st = "done" /\ runs[r].outcome = "ok"
    /\ \A c \in Callers : Delivered(c) /\ initCall[c].result # "ok"
          => /\ runs[initCall[c].joined].st = "done"
             /\ runs[initCall[c].joined].outcome = initCall[c].result
             /\ initializePromise # initCall[c].joined
             /\ isInitialized => \E r \in DOMAIN runs :
                                    r > initCall[c].joined /\ runs[r].outcome = "ok"

\* C2, the steps: an initialize() call on an Uninitialized manager (not
\* initialized, no promise retained), whatever failed before, starts a new
\* execution at its first step and is delivered nothing yet.
C2_Retry ==
    \A c \in Callers :
       (~Pending(c) /\ initCall'[c] # initCall[c]
        /\ ~isInitialized /\ initializePromise = NoHandle)
       => /\ Len(runs') = Len(runs) + 1
          /\ runs'[Len(runs')] = NewRun
          /\ initializePromise' = Len(runs')
          /\ initCall'[c] = [pc |-> "owner", joined |-> Len(runs'), result |-> "none"]

\* C2: a failed initialization leaves the manager Uninitialized, delivers
\* its error to every caller that awaited it, and a later initialize()
\* starts a new authorization sequence.
C2_FailureResets == []C2_Inv /\ [][C2_Retry]_vars

\* C2 witness: both callers were delivered the error of the first
\* execution, whose polling was denied, and one of them has called again
\* and started a second execution.
C2_Witness ==
    /\ Len(runs) = 2
    /\ runs[1].outcome = "Authentication was denied"
    /\ runs[2].st = "ensurePaths"
    /\ ~isInitialized
    /\ \E c, d \in Callers :
          /\ c # d
          /\ Delivered(c) /\ initCall[c].joined = 1
          /\ initCall[c].result = "Authentication was denied"
          /\ initCall[d] = [pc |-> "owner", joined |-> 2, result |-> "none"]

\* C8 (as claimed): in a poll loop that has received slow_down, every wait
\* from then on is at least twice the wait used before it.
C8_SlowDownSticky ==
    \A r \in DOMAIN runs :
       runs[r].st = "pollSleep" /\ runs[r].slowed
          => runs[r].lastWait >= 2 * runs[r].sleepDuration

\* C9, the states: the loop sends at most maxAttempts requests, maxAttempts
\* is the least n with n * (interval + 1) >= expires_in, and a loop that
\* timed out sent exactly maxAttempts requests.
C9_Inv ==
    \A r \in DOMAIN runs :
       LET run == runs[r]
           step == run.deviceCode.interval + 1 IN
       /\ run.pollReqs <= run.maxAttempts
       /\ run.attempts <= run.maxAttempts
       /\ run.loops = 1 =>
             /\ run.maxAttempts * step >= run.deviceCode.expires_in
             /\ run.maxAttempts > 0 =>
                   (run.maxAttempts - 1) * step < run.deviceCode.expires_in
             /\ (run.deviceCode = [interval |-> 5, expires_in |-> 30])
                   => run.maxAttempts = 5
       /\ run.outcome = "Authentication timeout" /\ run.loops = 1
             => run.pollReqs = run.maxAttempts

\* C9, the steps: when the answer to request number maxAttempts was not a
\* resolving one, the loop's next step is to fail with Timeout, with no
\* further request.
C9_Step ==
    \A r \in DOMAIN runs :
       (runs[r].st = "pollSleep" /\ runs[r].attempts = runs[r].maxAttempts
        /\ runs'[r] # runs[r])
       => /\ runs'[r].st = "done"
          /\ runs'[r].outcome = "Authentication timeout"
          /\ runs'[r].pollReqs = runs[r].pollReqs

\* C9: the poll loop sends at most ceil(expires_in / (interval + 1)) token
\* requests and fails with Timeout once that many went unresolved.
C9_BoundedPolling == []C9_Inv /\ [][C9_Step]_vars

\* C9 witness: interval 5, expires_in 30: the fifth request has gone
\* unresolved and the loop has timed out.
C9_Witness ==
    \E r \in DOMAIN runs :
       /\ runs[r].deviceCode = [interval |-> 5, expires_in |-> 30]
       /\ runs[r].outcome = "Authentication timeout"
       /\ runs[r].pollReqs = 5

\* C10: while a poll loop is between two iterations the raised cancellation
\* flag stays raised, and an iteration that starts with the flag raised
\* sends no request, fails with Cancelled and saves nothing.
C10_Step ==
    \A r \in DOMAIN runs :
       /\ (InPollLoop(runs[r]) /\ pollingCancelled /\ InPollLoop(runs'[r]))
             => pollingCancelled'
       /\ (runs[r].st = "pollSleep" /\ runs[r].attempts < runs[r].maxAttempts
           /\ pollingCancelled /\ runs'[r] # runs[r])
             => /\ runs'[r].st = "done"
                /\ runs'[r].outcome = "Authentication polling was cancelled"
                /\ runs'[r].pollReqs = runs[r].pollReqs
                /\ runs'[r].saves = 0
                /\ file' = file
                /\ githubToken' = githubToken

C10_CancelBetweenIterations == [][C10_Step]_vars

\* C10 witness: destroy() came after the second request; the third
\* iteration sent nothing and the loop failed with Cancelled.
C10_Witness ==
    \E r \in DOMAIN runs :
       /\ runs[r].outcome = "Authentication polling was cancelled"
       /\ runs[r].attempts = 3
       /\ runs[r].pollReqs = 2
       /\ runs[r].saves = 0
       /\ destroyCalled

\* -------------------------------------------------- claims on getCopilotToken
Unavailable == "Copilot token not available"
Called(c) == tokCall[c].pc # "idle"
Returned(c) == tokCall[c].pc = "returned"
\* The step is a getCopilotToken() call by c (not the end of its exchange).
Calls(c) == tokCall[c].pc # "exchange" /\ tokCall'[c] # tokCall[c]

\* C3 (as claimed): a call that returns a token whose remaining lifetime was
\* below the buffer when it was checked has sent exactly one exchange.
C3_FreshOrRefreshed ==
    \A c \in TokCallers :
       Returned(c) /\ tokCall[c].result = "token" /\ tokCall[c].remaining = "below"
          => tokCall[c].exchanges = 1

\* C4 (as claimed, the half the code contradicts): with remaining >= 300,
\* 300 included, a call sends no exchange.
C4_NoExchangeFromBuffer ==
    \A c \in TokCallers :
       Called(c) /\ tokCall[c].remaining \in {"equal", "above"}
          => tokCall[c].exchanges = 0

\* C4 amended, the states: a call that found a token sends an exchange
\* only with remaining <= 300, and always with remaining = 300 exactly.
C4_Inv ==
    \A c \in TokCallers :
       Called(c) /\ tokCall[c].result # Unavailable
          => /\ tokCall[c].exchanges = 1
                  => tokCall[c].remaining \in {"below", "equal"}
             /\ tokCall[c].remaining = "equal" => tokCall[c].exchanges = 1

\* C4 amended, the steps: a call that finds a token with remaining > 300
\* returns that token and leaves token, expiry and timers as they were.
C4_Step ==
    \A c \in TokCallers :
       (Calls(c) /\ TruthyTok(copilotToken)
        /\ Remaining(now, copilotTokenExpiresAt) = "above")
       => /\ tokCall'[c].pc = "returned"
          /\ tokCall'[c].result = "token"
          /\ tokCall'[c].value = copilotToken
          /\ tokCall'[c].exchanges = 0
          /\ UNCHANGED <<copilotToken, copilotTokenExpiresAt, timers,
                         refreshTimeout, refreshTasks>>

C4_ExchangeAtOrBelowBuffer == []C4_Inv /\ [][C4_Step]_vars

\* C4 witness: a call made with exactly 300 seconds left has exchanged and
\* returned the new token.
C4_Witness ==
    \E c \in TokCallers :
       /\ Returned(c) /\ tokCall[c].result = "token"
       /\ tokCall[c].remaining = "equal" /\ tokCall[c].expiry = "set"
       /\ tokCall[c].exchanges = 1

\* C5 (as claimed): a call on a manager that is not Ready leaves an
\* initialization started and does not fail for want of a token.
C5_ImplicitInitialize ==
    \A c \in TokCallers :
       Returned(c) /\ ~tokCall[c].readyAtCall
          => Len(runs) > 0 /\ tokCall[c].result # Unavailable

\* C5 amended, the states: a call made while no token is held fails with
\* the token-unavailable error.
C5_Inv ==
    \A c \in TokCallers :
       Called(c) /\ ~tokCall[c].hadToken
          => Returned(c) /\ tokCall[c].result = Unavailable

\* C5 amended, the steps: no step of getCopilotToken() starts, joins or
\* completes an initialization.
C5_Step ==
    (\E c \in TokCallers : tokCall'[c] # tokCall[c])
       => UNCHANGED <<runs, initializePromise, isInitialized, initCall>>

C5_NoImplicitInitialize == []C5_Inv /\ [][C5_Step]_vars

\* C5 witness: a call on a manager that was never initialized has failed
\* with the token-unavailable error and no initialization has started.
C5_Witness ==
    \E c \in TokCallers :
       /\ Returned(c) /\ ~tokCall[c].readyAtCall
       /\ tokCall[c].result = Unavailable
       /\ runs = << >> /\ ~isInitialized /\ initializePromise = NoHandle

\* C6, the states: a call made before any token was stored has failed with
\* the token-unavailable error and sent no exchange.
C6_Inv ==
    \A c \in TokCallers :
       Called(c) /\ ~tokCall[c].hadToken
          => /\ Returned(c)
             /\ tokCall[c].result = Unavailable
             /\ tokCall[c].exchanges = 0

\* C6, the steps: such a call changes no field of the manager, no timer and
\* not the credential file.
C6_Step ==
    \A c \in TokCallers :
       (Calls(c) /\ ~tokenObtained) => UNCHANGED <<mgrVars, file, timers, refreshTasks>>

C6_TokenUnavailable == []C6_Inv /\ [][C6_Step]_vars

\* C6 witness: the call failed while an initialization was waiting for its
\* exchange, before any token was stored.
C6_Witness ==
    \E c \in TokCallers :
       /\ Returned(c) /\ ~tokCall[c].hadToken
       /\ tokCall[c].result = Unavailable
       /\ Len(runs) = 1 /\ runs[1].st = "exchange"
       /\ copilotToken = NullTok

\* C7 (as claimed): after destroy(), with no new initialize() or
\* getCopilotToken() call since, no timer callback sends an exchange.
C7_NoRefreshAfterDestroy ==
    destroyCalled /\ ~usedAfterDestroy => ~bgExchangeAfterDestroy

\* ------------------------------------------------ claims on setupGitHubToken
\* C11: an initialization whose saved credential was verified sends no
\* device-code request and no token-poll request and starts no write of the
\* credential file: it goes straight to the exchange, and ends with the
\* outcome of the exchange.
C11_StoredCredentialReused ==
    \A r \in DOMAIN runs :
       runs[r].savedCheck = "verified"
          => /\ runs[r].dcReqs = 0 /\ runs[r].pollReqs = 0
             /\ runs[r].writes = 0 /\ runs[r].saves = 0
             /\ runs[r].st \in {"exchange", "done"}
             /\ runs[r].st = "done"
                   => runs[r].outcome \in {"ok", "Failed to get Copilot token"}

\* C11 witness: such an initialization has succeeded, the file still holds
\* the stored credential and the manager holds it trimmed.
C11_Witness ==
    \E r \in DOMAIN runs :
       /\ runs[r].savedCheck = "verified"
       /\ runs[r].st = "done" /\ runs[r].outcome = "ok"
       /\ file = FileWith(StoredCredential)
       /\ githubToken = <<"o">>

\* C12 (as claimed): once the saved credential was rejected and the clearing
\* has ended, the initialization has not failed for it: the device flow has
\* been started and neither the file nor the manager holds the old
\* credential.
C12_SelfHealing ==
    \A r \in DOMAIN runs :
       runs[r].savedCheck = "rejected" /\ runs[r].st # "clearToken"
          => /\ runs[r].dcReqs = 1
             /\ file.content # StoredCredential
             /\ githubToken # <<"o">>

\* C12 amended: after the saved credential was rejected, either the file is
\* still being cleared, or the clearing write failed and the initialization
\* ended with that error without starting the device flow, or the clearing
\* succeeded: then one device-code request was sent, file and manager hold
\* nothing or the new credential, never the old one, and once the new
\* credential is saved the file holds exactly it.
C12_ClearedThenDeviceFlow ==
    \A r \in DOMAIN runs :
       runs[r].savedCheck = "rejected"
          => \/ runs[r].st = "clearToken" /\ runs[r].dcReqs = 0
             \/ /\ runs[r].st = "done" /\ runs[r].outcome = "fs error"
                /\ runs[r].dcReqs = 0
             \/ /\ runs[r].dcReqs = 1
                /\ file.content \in {EmptyStr, runs[r].accessToken}
                /\ file.content # StoredCredential
                /\ githubToken \in {EmptyStr, runs[r].accessToken}
                /\ (runs[r].st \in {"verifyNew", "exchange"} \/ runs[r].outcome = "ok")
                      => /\ runs[r].accessToken # EmptyStr
                         /\ file.content = runs[r].accessToken
                         /\ githubToken = runs[r].accessToken

\* C12 witness: the initialization succeeded through the device flow after
\* the saved credential was rejected, and the file holds the new credential.
C12_Witness ==
    \E r \in DOMAIN runs :
       /\ runs[r].savedCheck = "rejected"
       /\ runs[r].st = "done" /\ runs[r].outcome = "ok"
       /\ runs[r].dcReqs = 1
       /\ file = FileWith(<<"n">>)

\* C13: an initialize() call on a Ready manager returns at once with
\* success and changes no field, file, timer or task.
C13_Step ==
    \A c \in Callers :
       (isInitialized /\ initCall[c].pc \in {"idle", "returned"}
        /\ initCall'[c] # initCall[c])
       => /\ initCall'[c] = [pc |-> "returned", joined |-> NoHandle, result |-> "ok"]
          /\ UNCHANGED <<mgrVars, envVars, runs, tokCall, refreshTasks>>

C13_ReadyReturnsAtOnce == [][C13_Step]_vars

\* C13 witness: a call made on a Ready manager has returned at once, after
\* the one initialization the manager ran.
C13_Witness ==
    /\ isInitialized /\ Len(runs) = 1 /\ initializePromise = NoHandle
    /\ \E c \in Callers :
          initCall[c] = [pc |-> "returned", joined |-> NoHandle, result |-> "ok"]

\* The step is a destroy() call.
DestroyStep ==
    /\ destroyCalled'
    /\ \/ ~destroyCalled
       \/ pollingCancelled' /\ ~pollingCancelled
       \/ usedAfterDestroy /\ ~usedAfterDestroy'
       \/ refreshTimeout # NoHandle /\ refreshTimeout' = NoHandle

\* C14: destroy() raises the cancellation flag, clears the stored timer and
\* forgets its handle, and leaves the credential file, both credentials, the
\* service token, its expiry, isInitialized, the in-flight promise and every
\* task as they were.
C14_Step ==
    DestroyStep
       => /\ pollingCancelled' /\ refreshTimeout' = NoHandle
          /\ timers' = {t \in timers : t.id # refreshTimeout}
          /\ UNCHANGED <<file, providedGithubToken, githubToken, copilotToken,
                         copilotTokenExpiresAt, isInitialized, initializePromise,
                         runs, initCall, tokCall, refreshTasks>>

C14_DestroyFrame == [][C14_Step]_vars

\* C14 witness: destroy() has run on a Ready manager, which still holds its
\* credential, its service token and its file, and has no timer left.
C14_Witness ==
    /\ destroyCalled /\ ~usedAfterDestroy /\ pollingCancelled
    /\ isInitialized /\ TruthyTok(copilotToken) /\ copilotTokenExpiresAt.has
    /\ githubToken = <<"o">> /\ file = FileWith(StoredCredential)
    /\ refreshTimeout = NoHandle /\ timers = {}

\* C15: whenever a token-poll request has been sent the verification URL
\* and the user code have been displayed; they are displayed only after the
\* device-code response has arrived, and no poll request precedes them.
C15_DisplayedBeforePolling ==
    \A r \in DOMAIN runs :
       /\ (runs[r].pollReqs > 0 \/ runs[r].attempts > 0) => runs[r].displayed
       /\ runs[r].displayed
             => /\ runs[r].dcReqs = 1 /\ runs[r].loops = 1
                /\ runs[r].pollsBeforeDisplay = 0
                /\ runs[r].st \notin {"ensurePaths", "readToken", "verifySaved",
                                      "clearToken", "deviceCode"}

\* C15 witness: the first poll request is in flight and the code has been
\* displayed.
C15_Witness ==
    \E r \in DOMAIN runs :
       /\ runs[r].st = "pollFetch" /\ runs[r].pollReqs = 1
       /\ runs[r].displayed

\* --------------------------------------------- claims on the credential store
AllWhitespace(s) == \A i \in 1..Len(s) : s[i] \in Whitespace
\* t is s without its leading and trailing whitespace, and is not empty.
IsTrimOf(t, s) ==
    /\ t # EmptyStr
    /\ t[1] \notin Whitespace /\ t[Len(t)] \notin Whitespace
    /\ \E i \in 1..Len(s) :
          /\ i + Len(t) - 1 <= Len(s)
          /\ t = SubSeq(s, i, i + Len(t) - 1)
          /\ AllWhitespace(SubSeq(s, 1, i - 1))
          /\ AllWhitespace(SubSeq(s, i + Len(t), Len(s)))

\* C16, the save: a save that succeeds leaves the file holding exactly the
\* credential it was given.
C16_Save ==
    \A r \in DOMAIN runs :
       (runs[r].st = "saveToken" /\ runs'[r].st = "verifyNew")
          => file' = FileWith(runs[r].accessToken)

\* C16, the load: it never ends the initialization and never changes the
\* file; it yields the content without its surrounding whitespace, and
\* yields absent (the device flow starts) when the file is missing, empty or
\* all whitespace.
C16_Load ==
    \A r \in DOMAIN runs :
       (runs[r].st = "readToken" /\ runs'[r].st # "readToken")
          => /\ UNCHANGED file
             /\ \/ /\ runs'[r].st = "verifySaved"
                   /\ file.exists /\ IsTrimOf(githubToken', file.content)
                \/ /\ runs'[r].st = "deviceCode"
                   /\ UNCHANGED githubToken
             /\ (~file.exists \/ AllWhitespace(file.content))
                   => runs'[r].st = "deviceCode"

\* C16, the round trip: while a loaded credential is being verified the
\* manager holds the trimmed content of the file.
C16_Loaded ==
    \A r \in DOMAIN runs :
       runs[r].st = "verifySaved" => IsTrimOf(githubToken, file.content)

C16_RoundTrip == []C16_Loaded /\ [][C16_Save /\ C16_Load]_vars

\* C16 witness: a second initialization has loaded "n" from the file in
\* which the first one saved " n" followed by a newline.
C16_Witness ==
    /\ Len(runs) = 2 /\ runs[2].st = "verifySaved"
    /\ file = FileWith(<<" ", "n", "\n">>)
    /\ githubToken = <<"n">>

\* ------------------------------------------------- claims on the poll answers
\* C17 (as claimed): a body that is not valid JSON on an ok response is a
\* pending state, so no initialization ever ends with the error raised for
\* an unreadable answer.
C17_MalformedOkIsPending ==
    \A r \in DOMAIN runs :
       runs[r].outcome # "Invalid response from GitHub OAuth"

\* ---------------------------------------------- claims on background refresh
\* C18 (as claimed): once the exchange of an initialization has succeeded,
\* and until destroy() is called, the timer the manager holds is pending,
\* whatever refresh_in the response carried.
C18_TimerAfterExchange ==
    \A r \in DOMAIN runs :
       (runs[r].st = "done" /\ runs[r].outcome = "ok" /\ ~destroyCalled)
          => \E t \in timers : t.id = refreshTimeout /\ t.delay >= 0

\* C19: when the exchange of a timer callback fails, the step changes
\* neither the service token nor its expiry, arms no timer and leaves the
\* stored handle alone, and no initialize() or getCopilotToken() call sees
\* the error.
C19_Step ==
    \A id \in refreshTasks : \A resp \in ExchangeAnswers(now) :
       (RefreshDone(id, resp) /\ ~resp.ok)
          => UNCHANGED <<copilotToken, copilotTokenExpiresAt, timers,
                         refreshTimeout, isInitialized, runs, initCall, tokCall>>

C20_Step ==
    \A id \in refreshTasks : \A resp \in ExchangeAnswers(now) :
       (RefreshDone(id, resp) /\ resp.ok)
          => /\ copilotToken' = resp.token
             /\ copilotTokenExpiresAt' = resp.expires_at
             /\ \E t \in timers' \ timers :
                   t.id = refreshTimeout' /\ t.armedAt = now

C20_RefreshRearms == [][C20_Step]_vars

\* The failure each terminal error value of the token endpoint ends with.
TerminalFailure ==
    [ expired_token |-> "Authentication code expired",
      access_denied |-> "Authentication was denied",
      other_error   |-> "OAuth error" ]

\* C21: in the poll loop an error value of expired_token, access_denied or
\* any value other than authorization_pending and slow_down ends the loop
\* in the step that reads it: the run is settled with the corresponding
\* failure, without a sleep, a further token request or a write, the
\* credential in memory and the file are left alone, a settled run stays
\* settled, and every initialize() call that receives the outcome of such
\* a run fails with it and does not make the manager Ready.
C21_Step ==
    /\ \A r \in DOMAIN runs : \A a \in DOMAIN TerminalFailure :
          \A tok \in AccessTokens :
             PollResponse(r, a, tok)
                => /\ runs'[r].st = "done"
                   /\ runs'[r].outcome = TerminalFailure[a]
                   /\ runs'[r].pollReqs = runs[r].pollReqs
                   /\ runs'[r].saves = 0
                   /\ runs'[r].writes = runs[r].writes
                   /\ runs'[r].exchanges = 0
                   /\ UNCHANGED <<file, githubToken, copilotToken,
                                  isInitialized, now>>
    /\ \A r \in DOMAIN runs : \A a \in DOMAIN TerminalFailure :
          (runs[r].st = "done" /\ runs[r].outcome = TerminalFailure[a])
             => /\ runs'[r].st = "done"
                /\ runs'[r].outcome = TerminalFailure[a]
                /\ runs'[r].pollReqs <= runs[r].pollReqs
                /\ runs'[r].saves = 0
    /\ \A c \in Callers : \A a \in DOMAIN TerminalFailure :
          (Pending(c) /\ initCall'[c].pc = "returned"
             /\ runs[initCall[c].joined].outcome = TerminalFailure[a])
             => /\ initCall'[c].result = TerminalFailure[a]
                /\ isInitialized' = isInitialized

C21_TerminalErrors == [][C21_Step]_vars

\* C21 witness: a poll loop that had sent at least one token request was
\* ended by access_denied, and the caller that started it has failed with
\* that error while the manager is not Ready.
C21_Witness ==
    \E c \in Callers :
       /\ Delivered(c)
       /\ initCall[c].result = "Authentication was denied"
       /\ ~isInitialized
       /\ githubToken = EmptyStr

\* C22 (as claimed): the credential obtained by the device flow is written
\* to the file only after the identity endpoint has accepted it: while its
\* verification is outstanding, and after it has failed, the file does not
\* hold it.
C22_VerifiedBeforeSaved ==
    \A r \in DOMAIN runs :
       /\ runs[r].st = "verifyNew" => file.content # runs[r].accessToken
       /\ (runs[r].st = "done" /\ runs[r].outcome = "Failed to verify GitHub user")
             => file.content \notin AccessTokens

\* A 2xx exchange response that lacks token, expires_at or refresh_in.
LacksField(resp) ==
    resp.ok /\ (~TruthyTok(resp.token) \/ ~resp.expires_at.has \/ ~resp.refresh_in.has)

\* C23 (as claimed): an exchange whose 2xx response lacks a required field
\* fails: the initialization that made it ends with the exchange error and
\* never makes the manager Ready, and whoever made it (initialization,
\* getCopilotToken() or the timer callback) leaves the token and its expiry
\* as they were.
C23_Step ==
    /\ \A r \in DOMAIN runs : \A resp \in ExchangeAnswers(now) :
          (ExchangeDone(r, resp) /\ LacksField(resp))
             => /\ runs'[r].outcome = "Failed to get Copilot token"
                /\ UNCHANGED <<copilotToken, copilotTokenExpiresAt>>
    /\ \A c \in TokCallers : \A resp \in ExchangeAnswers(now) :
          (GetTokenExchangeDone(c, resp) /\ LacksField(resp))
             => /\ tokCall'[c].result # "token"
                /\ UNCHANGED <<copilotToken, copilotTokenExpiresAt>>
    /\ \A id \in refreshTasks : \A resp \in ExchangeAnswers(now) :
          (RefreshDone(id, resp) /\ LacksField(resp))
             => UNCHANGED <<copilotToken, copilotTokenExpiresAt>>

C23_IncompleteResponseFails == [][C23_Step]_vars

\* In a Ready manager both tokens are held, and a getCopilotToken() call
\* made on a Ready manager has not failed for want of a token.
C27_ReadyHoldsTokens ==
    /\ isInitialized => TruthyStr(githubToken) /\ TruthyTok(copilotToken)
    /\ \A c \in TokCallers :
          tokCall[c].readyAtCall => tokCall[c].result # "Copilot token not available"

\* C27 (as claimed): Ready is absorbing and implies a usable token: once
\* isInitialized is true no step makes it false, and wherever it is true
\* the primary credential and the service token are held, so that
\* getCopilotToken() on a Ready manager never fails with the
\* token-unavailable error.
C27_ReadyAbsorbingUsable ==
    /\ []C27_ReadyHoldsTokens
    /\ [][isInitialized => isInitialized']_vars

\* C28: the cancellation flag is reset at the start of every authorization
\* attempt: the step in which setupGitHubToken() begins leaves the flag
\* false whatever destroy() did before, only destroy() sets it, and so an
\* attempt started after the last destroy() runs its credential setup and
\* its poll loop with the flag false and is never ended by cancellation; a
\* poll loop is cancelled only by a destroy() issued after its attempt was
\* started.
C28_Step ==
    /\ \A r \in DOMAIN runs : \A ok \in BOOLEAN :
          (EnsurePathsDone(r, ok) /\ runs'[r].st = "readToken")
             => ~pollingCancelled'
    /\ (pollingCancelled' /\ ~pollingCancelled) => DestroyStep
    /\ \A r \in DOMAIN runs :
          (usedAfterDestroy /\ providedGithubToken = EmptyStr
             /\ runs[r].st \notin {"ensurePaths", "done"})
             => ~pollingCancelled
    /\ \A r \in DOMAIN runs :
          (runs[r].st # "done" /\ runs'[r].st = "done"
             /\ runs'[r].outcome = "Authentication polling was cancelled")
             => pollingCancelled /\ destroyCalled /\ ~usedAfterDestroy

C28_FlagResetPerAttempt == [][C28_Step]_vars

\* C28 witness: destroy() was called, initialize() was called after it on
\* the manager, which was not Ready, and the poll loop of that attempt has
\* sent a token request with the flag false.
C28_Witness ==
    /\ destroyCalled /\ usedAfterDestroy /\ ~isInitialized
    /\ ~pollingCancelled
    /\ \E r \in DOMAIN runs : runs[r].st = "pollFetch" /\ runs[r].pollReqs >= 1

\* C26: the token in memory and its stored expiry come from the same
\* exchange response: every step that changes either of them stores both
\* fields of one successful response, whoever received it (initialization,
\* getCopilotToken() or the timer callback), so no state pairs the token of
\* one response with the expiry of another.
C26_Step ==
    (copilotToken' # copilotToken \/ copilotTokenExpiresAt' # copilotTokenExpiresAt)
       => \E resp \in ExchangeAnswers(now) :
             /\ resp.ok
             /\ copilotToken' = resp.token
             /\ copilotTokenExpiresAt' = resp.expires_at

C26_TokenAndExpiryTogether == [][C26_Step]_vars

\* C26 witness: after time has passed, a getCopilotToken() call has
\* replaced the token of the initialization by the one it returned, and
\* the token and expiry in memory are those of its response.
C26_Witness ==
    /\ now > StartTime
    /\ copilotToken = "t2"
    /\ copilotTokenExpiresAt = Num(now + Lifetime)
    /\ isInitialized
    /\ \E c \in TokCallers :
          /\ tokCall[c].pc = "returned" /\ tokCall[c].exchanges = 1
          /\ tokCall[c].result = "token" /\ tokCall[c].value = "t2"

\* C25 (as claimed): at most one refresh timer is pending at any time and
\* the stored handle refers to it, so that destroy() can cancel it.
C25_OneTimerHeld ==
    /\ Cardinality(timers) <= 1
    /\ \A t \in timers : t.id = refreshTimeout

\* The getCopilotToken() calls made while the cached token was stale, and the
\* exchanges they sent.
StaleCalls ==
    {c \in StaleCallers : tokCall[c].pc # "idle"
                          /\ tokCall[c].remaining \in {"below", "equal"}}

RECURSIVE ExchangesOf(_)
ExchangesOf(cs) ==
    IF cs = {} THEN 0
    ELSE LET c == CHOOSE x \in cs : TRUE
         IN tokCall[c].exchanges + ExchangesOf(cs \ {c})

\* C24 (as claimed): when two or more getCopilotToken() calls are made while
\* the cached token is stale, each sends at most one exchange, at least one
\* and at most k exchanges are sent in all, every call that returns a token
\* returns one produced by an exchange (it sent one itself, never the stale
\* token), and once all have returned the token in memory is the one the
\* last writer returned.
C24_StaleOverlap ==
    Cardinality(StaleCalls) >= 2 =>
       /\ \A c \in StaleCalls : tokCall[c].exchanges <= 1
       /\ ExchangesOf(StaleCalls) <= Cardinality(StaleCalls)
       /\ \A c \in StaleCalls :
             (tokCall[c].pc = "returned" /\ tokCall[c].result = "token")
                => tokCall[c].exchanges = 1
       /\ (\A c \in StaleCalls : tokCall[c].pc = "returned" /\ tokCall[c].result = "token")
             => /\ ExchangesOf(StaleCalls) >= 1
                /\ \E c \in StaleCalls : tokCall[c].value = copilotToken

\* C29: a provider whose constructor-started initialization failed never
\* retries it: its promise stays the rejected one, it never calls
\* initialize() again, and every getCopilotToken() on it fails with that
\* same error without reaching the manager, also after another user has
\* made the shared manager Ready; and after a successful initialization the
\* provider drops the promise at the first call that awaited it, leaves it
\* dropped from then on and never calls initialize() again.
C29_Step ==
    /\ ProviderSettled
          => /\ initCall'[Provider].pc \in {"returned", "cleared"}
             /\ initCall'[Provider].joined = initCall[Provider].joined
             /\ initCall'[Provider].result = initCall[Provider].result
    /\ ProviderInitFailed
          => /\ initCall'[Provider] = initCall[Provider]
             /\ \A c \in TokCallers :
                   /\ tokCall'[c].pc # "exchange"
                   /\ tokCall'[c].pc = "returned"
                         => tokCall'[c].result = initCall[Provider].result
             /\ \A c \in TokCallers :
                   ProviderGetCopilotToken(c)
                      => UNCHANGED <<runs, initializePromise, isInitialized,
                                     copilotToken, githubToken>>
    /\ initCall[Provider].pc = "cleared"
          => /\ initCall'[Provider] = initCall[Provider]
             /\ initCall[Provider].result = "ok"
    /\ (initCall[Provider].pc = "returned" /\ initCall'[Provider].pc = "cleared")
          => /\ initCall[Provider].result = "ok"
             /\ \E c \in TokCallers :
                   tokCall[c].pc = "idle" /\ tokCall'[c].pc # "idle"
    /\ \A c \in TokCallers :
          (tokCall[c].pc # "idle" /\ ~ProviderInitFailed)
             => initCall[Provider].pc = "cleared"

C29_ProviderInitializesOnce == [][C29_Step]_vars

\* C29 witness: the provider's initialization failed, another user of the
\* shared manager has since initialized it and a token is held, and a
\* getCopilotToken() made on the provider while the manager was Ready has
\* failed with the provider's initialization error.
C29_Witness ==
    /\ ProviderInitFailed
    /\ isInitialized /\ TruthyTok(copilotToken)
    /\ \E c \in TokCallers :
          /\ tokCall[c].pc = "returned"
          /\ tokCall[c].readyAtCall
          /\ tokCall[c].result = initCall[Provider].result

====
